---- MODULE Spec2Model ----
(***************************************************************************)
(* A model of the streaming XML tokenizer of src/src/parser.ts (class      *)
(* Parser, a stream.Writable).  Strings are sequences of one-character     *)
(* strings.  The tokenizer's fields are the record `parser`; `events` is   *)
(* the sequence of emit() calls that returned.  One action is one call of  *)
(* _write on one chunk; `trace` keeps what each iteration of its loop did.  *)
(***************************************************************************)
EXTENDS Integers, Sequences, FiniteSets, TLC

VARIABLES
    doc,        \* the characters the writer has to deliver, in order
    listeners,  \* the events that have at least one listener
    fedTo,      \* how many characters of doc have been handed to _write
    pc,         \* "idle": no _write is running; "thrown": a _write threw and never called done
    parser,     \* the fields state, buffer, pos and tagType of the Parser
    events,     \* the emit() calls that returned, in order
    trace,      \* history: one entry for each iteration of the loop of _write
    doneCalls,  \* history: how often the latest _write call has called done
    ended,      \* end() has been called
    piecewise   \* history: the document is written in more than one chunk

vars == <<doc, listeners, fedTo, pc, parser, events, trace, doneCalls, ended, piecewise>>

(***************************************************************************)
(* enum STATE, enum TAG_TYPE, const EVENTS                                 *)
(***************************************************************************)
TEXT == 0
TAG_NAME == 1
INSTRUCTION == 2
IGNORE_COMMENT == 4
CDATA == 8

NONE == 0
OPENING == 1
CLOSING == 2
SELF_CLOSING == 3

EVENTS == [ERROR |-> "error", TEXT |-> "text", INSTRUCTION |-> "instruction",
           OPEN_TAG |-> "opentag", CLOSE_TAG |-> "closetag", CDATA |-> "cdata"]

EventNames == {EVENTS.ERROR, EVENTS.TEXT, EVENTS.INSTRUCTION, EVENTS.OPEN_TAG,
               EVENTS.CLOSE_TAG, EVENTS.CDATA}

(***************************************************************************)
(* JavaScript values that are not character strings.                       *)
(***************************************************************************)
\* what indexing a string outside its length yields
undefined == "undefined"
\* the name of a failed parse (a sequence that is no string of characters)
null == <<"null">>
\* the value true of the marker attribute
true == <<"true">>
\* the marker key of a self-closing tag without attributes
selfClosingKey == <<"___selfClosing___">>

(***************************************************************************)
(* String primitives of JavaScript, on sequences of characters.            *)
(***************************************************************************)
Min(a, b) == IF a < b THEN a ELSE b
Max(a, b) == IF a > b THEN a ELSE b

\* s[j] with j counted from 0
CharAt(s, j) == IF j >= 0 /\ j < Len(s) THEN s[j + 1] ELSE undefined

\* a relative index of slice(): negative counts from the end, clamped
SliceIndex(len, k) == IF k < 0 THEN Max(len + k, 0) ELSE Min(k, len)

\* s.slice(from, to)
Slice(s, from, to) ==
    LET a == SliceIndex(Len(s), from)
        b == SliceIndex(Len(s), to)
    IN  IF a < b THEN SubSeq(s, a + 1, b) ELSE <<>>

\* s.slice(-1)
SliceLast(s) == Slice(s, -1, Len(s))

\* s.substr(from)
Substr(s, from) == Slice(s, from, Len(s))

\* the characters String.prototype.trim removes and the regular expression \s matches
WhiteSpace == {" ", "\t", "\n", "\r"}

RECURSIVE TrimLeft(_)
TrimLeft(s) == IF s # <<>> /\ Head(s) \in WhiteSpace THEN TrimLeft(Tail(s)) ELSE s

RECURSIVE TrimRight(_)
TrimRight(s) ==
    IF s # <<>> /\ s[Len(s)] \in WhiteSpace THEN TrimRight(SubSeq(s, 1, Len(s) - 1)) ELSE s

\* s.trim()
Trim(s) == TrimRight(TrimLeft(s))

\* does pat occur in s at the 0-based index j
OccursAt(s, pat, j) ==
    /\ j >= 0
    /\ j + Len(pat) <= Len(s)
    /\ \A k \in 1..Len(pat) : s[j + k] = pat[k]

\* s.indexOf(pat)
IndexOf(s, pat) ==
    LET hits == {j \in 0..Len(s) : OccursAt(s, pat, j)}
    IN  IF hits = {} THEN -1 ELSE CHOOSE j \in hits : \A k \in hits : j <= k

\* s.lastIndexOf(pat)
LastIndexOf(s, pat) ==
    LET hits == {j \in 0..Len(s) : OccursAt(s, pat, j)}
    IN  IF hits = {} THEN -1 ELSE CHOOSE j \in hits : \A k \in hits : j >= k

Contains(s, pat) == IndexOf(s, pat) # -1

(***************************************************************************)
(* _parseTagString                                                         *)
(***************************************************************************)
Lower == {"a","b","c","d","e","f","g","h","i","j","k","l","m",
          "n","o","p","q","r","s","t","u","v","w","x","y","z"}
Upper == {"A","B","C","D","E","F","G","H","I","J","K","L","M",
          "N","O","P","Q","R","S","T","U","V","W","X","Y","Z"}
Digit == {"0","1","2","3","4","5","6","7","8","9"}
Umlaut == {"ä","ö","ü","ß","Ä","Ö","Ü"}

\* [a-zäöüßÄÖÜA-Z0-9:_\-./] of the name expression
NameClass == Lower \cup Umlaut \cup Upper \cup Digit \cup {":", "_", "-", ".", "/"}
\* [a-zäöüßÄÖÜA-Z0-9:_\-.] of the attribute expression
KeyClass == Lower \cup Umlaut \cup Upper \cup Digit \cup {":", "_", "-", "."}

\* the length of the longest run of characters of class cls in s from the 0-based index j
RECURSIVE RunLength(_, _, _)
RunLength(s, j, cls) ==
    IF j < Len(s) /\ s[j + 1] \in cls THEN 1 + RunLength(s, j + 1, cls) ELSE 0

\* the name captured from a leading run of n name characters
NameOfRun(str, n) ==
    IF n >= 1 /\ (n = Len(str) \/ str[n + 1] \in WhiteSpace)
    THEN SubSeq(str, 1, n)
    ELSE null

\* /^([NameClass]+?)(\s|$)/.exec(str): the captured name, or null.  The lazy run
\* stops at the first place followed by white space or the end, and no
\* character of the class is white space, so that place is the end of the run.
NameMatch(str) == NameOfRun(str, RunLength(str, 0, NameClass))

\* the number of characters of s from the 0-based index j that are not a quote
RECURSIVE ValueLength(_, _)
ValueLength(s, j) ==
    IF j < Len(s) /\ s[j + 1] # "\"" THEN 1 + ValueLength(s, j + 1) ELSE 0

NoMatch == [found |-> FALSE, key |-> <<>>, value |-> <<>>, lastIndex |-> 0]

\* a key of k characters at j, =" , a value of n characters, and a quote
AttributeOfRuns(s, j, k, n) ==
    IF /\ k >= 1
       /\ CharAt(s, j + k) = "="
       /\ CharAt(s, j + k + 1) = "\""
       /\ n >= 1
       /\ CharAt(s, j + k + 2 + n) = "\""
    THEN [found |-> TRUE, key |-> SubSeq(s, j + 1, j + k),
          value |-> SubSeq(s, j + k + 3, j + k + 2 + n), lastIndex |-> j + k + n + 3]
    ELSE NoMatch

\* the value that follows a key of k characters at j
ValueOfKey(s, j, k) == AttributeOfRuns(s, j, k, ValueLength(s, j + k + 2))

\* one attempt of /([KeyClass]+?)="([^"]+?)"/ at the 0-based index j:
\* a run of key characters ended by =" , then one or more characters that are
\* not a quote, then a quote
AttributeMatchAt(s, j) == ValueOfKey(s, j, RunLength(s, j, KeyClass))

\* attributeRegexp.exec from lastIndex: the leftmost attempt that matches
RECURSIVE AttributeExec(_, _)
AttributeExec(s, from) ==
    IF from >= Len(s) THEN NoMatch
    ELSE IF AttributeMatchAt(s, from).found THEN AttributeMatchAt(s, from)
    ELSE AttributeExec(s, from + 1)

\* SetAttribute that keeps the value a key already has
SetAttributeKeepsFirst(attributes, key, value) == attributes @@ (key :> value)

\* attributes[key] = value
SetAttribute(attributes, key, value) == (key :> value) @@ attributes

\* the while loop over the matches
RECURSIVE AttributeLoop(_, _, _)
RECURSIVE AttributeStep(_, _, _)
AttributeStep(s, match, attributes) ==
    IF match.found
    THEN AttributeLoop(s, match.lastIndex, SetAttribute(attributes, match.key, match.value))
    ELSE attributes

AttributeLoop(s, from, attributes) == AttributeStep(s, AttributeExec(s, from), attributes)

\* the empty mapping {}
NoAttributes == <<>>

\* the trailing '/' of a name is dropped
StripSlash(name) ==
    IF name[Len(name)] = "/" THEN SubSeq(name, 1, Len(name) - 1) ELSE name

\* the result for the name the expression captured
ParsedAs(str, parsed) ==
    IF parsed # null
    THEN [name |-> StripSlash(parsed),
          attributes |-> AttributeLoop(Substr(str, Len(parsed)), 0, NoAttributes)]
    ELSE [name |-> null, attributes |-> NoAttributes]

_parseTagString(str) == ParsedAs(str, NameMatch(str))

(***************************************************************************)
(* The tokenizer.  A machine m is the four fields of the Parser together   *)
(* with what one iteration of the loop of _write has done so far: `out`,   *)
(* the emit() calls that returned, and `thrown`, whether an emit() threw.  *)
(* A statement that follows a call of emit() runs only if it did not throw. *)
(***************************************************************************)
Event(type, name, attributes, text) ==
    [type |-> type, name |-> name, attributes |-> attributes, text |-> text]

\* new Error(`Failed to parse name for tag${tag}`), new Error(`Failed to parse name for inst${inst}`)
ErrorMessage(kind, str) == <<"Failed to parse name for ", kind>> \o str

\* EventEmitter.emit as the handlers use it: the listeners of the event are
\* called and emit returns; an 'error' event without a listener is thrown
\* instead, and what follows the call in the handler does not run.
emit(m, e, ls) ==
    IF m.thrown THEN m
    ELSE IF e.type = EVENTS.ERROR /\ EVENTS.ERROR \notin ls
    THEN [m EXCEPT !.thrown = TRUE]
    ELSE [m EXCEPT !.out = Append(@, e)]

\* the string _endRecording returns
Recorded(m) == Slice(m.buffer, 1, m.pos - 1)

\* _endRecording with the cursor reset to the start of the buffer
_endRecordingCursorAtStart(m) == [m EXCEPT !.buffer = SliceLast(m.buffer), !.pos = 0]

\* the fields _endRecording assigns
_endRecording(m) == [m EXCEPT !.buffer = SliceLast(m.buffer), !.pos = 1]

\* EmitText without the test of the text
EmitTextAlways(m, text, ls) == emit(m, Event(EVENTS.TEXT, <<>>, NoAttributes, text), ls)

\* if (text) this.emit(EVENTS.TEXT, text)
EmitText(m, text, ls) ==
    IF text # <<>> THEN emit(m, Event(EVENTS.TEXT, <<>>, NoAttributes, text), ls) ELSE m

_onStartNewTag(m, ls) ==
    [EmitText(_endRecording(m), Trim(Recorded(m)), ls)
        EXCEPT !.state = TAG_NAME, !.tagType = OPENING]

\* if (name === null) this.emit(EVENTS.ERROR, ...)
EmitParseError(m, kind, str, parsed, ls) ==
    IF parsed.name = null
    THEN emit(m, Event(EVENTS.ERROR, <<>>, NoAttributes, ErrorMessage(kind, str)), ls)
    ELSE m

\* if (this.tagType && this.tagType === TAG_TYPE.OPENING)
EmitOpening(m, parsed, ls) ==
    IF ~m.thrown /\ m.tagType # 0 /\ m.tagType = OPENING
    THEN emit(m, Event(EVENTS.OPEN_TAG, parsed.name, parsed.attributes, <<>>), ls)
    ELSE m

\* if (this.tagType && this.tagType === TAG_TYPE.CLOSING)
EmitClosing(m, parsed, ls) ==
    IF ~m.thrown /\ m.tagType # 0 /\ m.tagType = CLOSING
    THEN emit(m, Event(EVENTS.CLOSE_TAG, parsed.name, parsed.attributes, <<>>), ls)
    ELSE m

\* attributes = { ___selfClosing___: true } when Object.keys(attributes).length === 0
SelfClosingAttributes(attributes) ==
    IF DOMAIN attributes = {} THEN (selfClosingKey :> true) ELSE attributes

\* if (this.tagType && this.tagType === TAG_TYPE.SELF_CLOSING)
EmitSelfClosing(m, parsed, ls) ==
    IF ~m.thrown /\ m.tagType # 0 /\ m.tagType = SELF_CLOSING
    THEN emit(emit(m, Event(EVENTS.OPEN_TAG, parsed.name,
                            SelfClosingAttributes(parsed.attributes), <<>>), ls),
              Event(EVENTS.CLOSE_TAG, parsed.name,
                    SelfClosingAttributes(parsed.attributes), <<>>), ls)
    ELSE m

\* TagDone without the reset of the tag type
TagDoneKeepsType(m) == IF m.thrown THEN m ELSE [m EXCEPT !.state = TEXT]

\* this.state = STATE.TEXT; this.tagType = TAG_TYPE.NONE
TagDone(m) == IF m.thrown THEN m ELSE [m EXCEPT !.state = TEXT, !.tagType = NONE]

\* _onTagCompleted after the recording is closed and parsed
TagEvents(m, tag, parsed, ls) ==
    TagDone(EmitSelfClosing(EmitClosing(EmitOpening(
        EmitParseError(m, "tag", tag, parsed, ls), parsed, ls), parsed, ls), parsed, ls))

_onTagCompleted(m, ls) ==
    TagEvents(_endRecording(m), Recorded(m), _parseTagString(Recorded(m)), ls)

\* _onCloseTagStart without the assignment of the tag type
_onCloseTagStartKeepsType(m) == _endRecording(m)

_onCloseTagStart(m) == [_endRecording(m) EXCEPT !.tagType = CLOSING]

_onStartInstruction(m) == [_endRecording(m) EXCEPT !.state = INSTRUCTION]

\* this.state = STATE.TEXT
InstructionDone(m) == IF m.thrown THEN m ELSE [m EXCEPT !.state = TEXT]

\* _onEndInstruction after the recording is closed and parsed
InstructionEvents(m, inst, parsed, ls) ==
    InstructionDone(
        emit(EmitParseError(m, "inst", inst, parsed, ls),
             Event(EVENTS.INSTRUCTION, parsed.name, parsed.attributes, <<>>), ls))

\* this.pos -= 1
StepBack(m) == [m EXCEPT !.pos = @ - 1]

_onEndInstruction(m, ls) ==
    InstructionEvents(_endRecording(StepBack(m)), Recorded(StepBack(m)),
                      _parseTagString(Recorded(StepBack(m))), ls)

_onCDATAStart(m) == [_endRecording(m) EXCEPT !.state = CDATA]

\* text.slice(text.indexOf('[') + 1, text.lastIndexOf(']>') - 1)
CDATAText(text) == Slice(text, IndexOf(text, <<"[">>) + 1, LastIndexOf(text, <<"]", ">">>) - 1)

_onCDATAEnd(m, ls) ==
    emit([_endRecording(m) EXCEPT !.state = TEXT],
         Event(EVENTS.CDATA, <<>>, NoAttributes, CDATAText(Recorded(m))), ls)

_onCommentStart(m) == [m EXCEPT !.state = IGNORE_COMMENT]

\* _onCommentEnd without the call of _endRecording
_onCommentEndKeepsRecording(m) == [m EXCEPT !.state = TEXT]

_onCommentEnd(m) == [_endRecording(m) EXCEPT !.state = TEXT]

\* case STATE.TAG_NAME: five ifs in a row, each on the fields as the ones before left them
IfStartInstruction(m, c, prev) ==
    IF prev = "<" /\ c = "?" THEN _onStartInstruction(m) ELSE m

IfCloseTagStart(m, c, prev) ==
    IF prev = "<" /\ c = "/" THEN _onCloseTagStart(m) ELSE m

IfCDATAStart(m, c, prev) ==
    IF CharAt(m.buffer, m.pos - 3) = "<" /\ prev = "!" /\ c = "[" THEN _onCDATAStart(m) ELSE m

IfCommentStart(m, c, prev) ==
    IF CharAt(m.buffer, m.pos - 3) = "<" /\ prev = "!" /\ c = "-" THEN _onCommentStart(m) ELSE m

\* if (prev === '/') this.tagType = TAG_TYPE.SELF_CLOSING
IfSelfClosing(m, prev) == IF prev = "/" THEN [m EXCEPT !.tagType = SELF_CLOSING] ELSE m

IfTagCompleted(m, c, prev, ls) ==
    IF c = ">" THEN _onTagCompleted(IfSelfClosing(m, prev), ls) ELSE m

TagNameCase(m, c, prev, ls) ==
    IfTagCompleted(
        IfCommentStart(IfCDATAStart(IfCloseTagStart(IfStartInstruction(m, c, prev),
                                                    c, prev), c, prev), c, prev),
        c, prev, ls)

\* Switch with an instruction ended by every '>'
SwitchEndsInstructionAtAnyGT(m, c, prev, ls) ==
    CASE m.state = TEXT ->
           IF c = "<" THEN _onStartNewTag(m, ls) ELSE m
      [] m.state = TAG_NAME -> TagNameCase(m, c, prev, ls)
      [] m.state = INSTRUCTION ->
           IF c = ">" THEN _onEndInstruction(m, ls) ELSE m
      [] m.state = CDATA ->
           IF CharAt(m.buffer, m.pos - 3) = "]" /\ prev = "]" /\ c = ">"
           THEN _onCDATAEnd(m, ls) ELSE m
      [] m.state = IGNORE_COMMENT ->
           IF CharAt(m.buffer, m.pos - 3) = "-" /\ prev = "-" /\ c = ">"
           THEN _onCommentEnd(m) ELSE m
      [] OTHER -> m

\* switch (this.state)
Switch(m, c, prev, ls) ==
    CASE m.state = TEXT ->
           IF c = "<" THEN _onStartNewTag(m, ls) ELSE m
      [] m.state = TAG_NAME -> TagNameCase(m, c, prev, ls)
      [] m.state = INSTRUCTION ->
           IF prev = "?" /\ c = ">" THEN _onEndInstruction(m, ls) ELSE m
      [] m.state = CDATA ->
           IF CharAt(m.buffer, m.pos - 3) = "]" /\ prev = "]" /\ c = ">"
           THEN _onCDATAEnd(m, ls) ELSE m
      [] m.state = IGNORE_COMMENT ->
           IF CharAt(m.buffer, m.pos - 3) = "-" /\ prev = "-" /\ c = ">"
           THEN _onCommentEnd(m) ELSE m
      [] OTHER -> m

\* const prev = this.buffer[this.pos - 1]
Prev(p) == CharAt(p.buffer, p.pos - 1)

\* the body of the for loop: this.buffer += c; this.pos += 1; switch
Body(p, c, prev, ls) ==
    Switch([state |-> p.state, buffer |-> Append(p.buffer, c), pos |-> p.pos + 1,
            tagType |-> p.tagType, out |-> <<>>, thrown |-> FALSE], c, prev, ls)

\* Iteration with prev read from the chunk, not from the buffer
IterationPrevFromChunk(p, ch, k, ls) == Body(p, ch[k + 1], CharAt(ch, k - 1), ls)

\* one iteration of the for loop of _write over the chunk ch, at index k (from 0)
Iteration(p, ch, k, ls) == Body(p, ch[k + 1], Prev(p), ls)

\* the fields of the Parser in a machine
Fields(m) == [state |-> m.state, buffer |-> m.buffer, pos |-> m.pos, tagType |-> m.tagType]

\* the field initializers of class Parser
NewParser == [state |-> TEXT, buffer |-> <<>>, pos |-> 0, tagType |-> NONE]

\* what one iteration leaves in the history
TraceEntry(p, c, m) ==
    [c |-> c, before |-> p, after |-> Fields(m), out |-> m.out, thrown |-> m.thrown]

\* a run r is the parser, the events and the history so far, whether an
\* emit() threw, and how often done was called
NewRun == [parser |-> NewParser, events |-> <<>>, trace |-> <<>>, thrown |-> FALSE, done |-> 0]

\* the run after an iteration that consumed c and ended as the machine m
Advance(r, c, m) ==
    [r EXCEPT !.parser = Fields(m),
              !.events = @ \o m.out,
              !.trace = Append(@, TraceEntry(r.parser, c, m)),
              !.thrown = m.thrown]

\* the for loop of _write from index k, and done() after it; an exception
\* leaves the loop and the function
RECURSIVE Loop(_, _, _, _)
RECURSIVE Continue(_, _, _, _)
Continue(next, ch, k, ls) == IF next.thrown THEN next ELSE Loop(next, ch, k + 1, ls)

Loop(r, ch, k, ls) ==
    IF k < Len(ch)
    THEN Continue(Advance(r, ch[k + 1], Iteration(r.parser, ch, k, ls)), ch, k, ls)
    ELSE [r EXCEPT !.done = @ + 1]

\* _write(chunk, encoding, done)
_write(r, ch, ls) == Loop(r, ch, 0, ls)

(***************************************************************************)
(* The documents written to the parser: a context before, one construct,   *)
(* a context after.  The constructs are tags, CDATA sections, comments,    *)
(* instructions and text runs, with bodies over small alphabets, so that   *)
(* well-formed and malformed input both occur.                             *)
(***************************************************************************)
\* the longest body of a construct
MaxBody == 2
\* the longest chunk of a piecewise write (a whole document is also written at once)
MaxChunk == 2

\* the strings over the alphabet A of length at most n
Strings(A, n) == UNION {[1..k -> A] : k \in 0..n}

AttrX1 == <<" ", "x", "=", "\"", "1", "\"">>
AttrX2 == <<" ", "x", "=", "\"", "2", "\"">>
AttrY1 == <<" ", "y", "=", "\"", "1", "\"">>
AttrStrings ==
    {<<>>, AttrX1, AttrX1 \o AttrY1, AttrX1 \o AttrX2, AttrX2 \o AttrX1,
     AttrX1 \o AttrY1 \o AttrX2}

TagStrings ==
    {open \o name \o attrs \o close :
        open \in {<<>>, <<"/">>}, name \in {<<>>, <<"a">>},
        attrs \in AttrStrings, close \in {<<>>, <<"/">>}}

Tags == {<<"<">> \o t \o <<">">> : t \in TagStrings}

CDATABodies == Strings({"a", "<", ">", "[", "]"}, MaxBody)
CDATASections ==
    {<<"<", "!", "[", "C", "D", "A", "T", "A", "[">> \o body \o <<"]", "]", ">">> :
        body \in CDATABodies}

CommentBodies == Strings({"a", "<", ">", "-"}, MaxBody)
Comments ==
    {<<"<", "!", "-", "-">> \o body \o <<"-", "-", ">">> : body \in CommentBodies}

InstructionBodies ==
    Strings({"x", " ", "?", ">"}, MaxBody) \cup {<<"x">> \o attrs : attrs \in AttrStrings}
Instructions == {<<"<", "?">> \o raw \o <<"?", ">">> : raw \in InstructionBodies}

TextRuns == Strings({"a", " "}, MaxBody + 1) \ {<<>>}

\* an instruction, a comment and a CDATA section that begin inside a closing tag
NestedStarts ==
    {<<"<", "/", "<", "?", "x", "?", ">">>,
     <<"<", "/", "<", "!", "-", "-", "a", "-", "-", ">">>,
     <<"<", "/", "<", "!", "[", "C", "D", "A", "T", "A", "[", "a", "]", "]", ">">>}

Constructs ==
    Tags \cup CDATASections \cup Comments \cup Instructions \cup TextRuns \cup NestedStarts

Before == {<<>>, <<"<", "b", ">", " ">>}
After == {<<>>, <<"c", "<", "/", "b", ">">>}

Docs == {b \o x \o a : b \in Before, x \in Constructs, a \in After}

\* who listens: nobody, or somebody to every event
ListenerSets == {{}, EventNames}

(***************************************************************************)
(* The state machine.                                                      *)
(***************************************************************************)
Init ==
    /\ doc \in Docs
    /\ listeners \in ListenerSets
    /\ fedTo = 0
    /\ pc = "idle"
    /\ parser = NewParser
    /\ events = <<>>
    /\ trace = <<>>
    /\ doneCalls = 0
    /\ ended = FALSE
    /\ piecewise = FALSE

\* the lengths the next chunk may have: up to MaxChunk, or the whole document
ChunkLengths ==
    {n \in 1..MaxChunk : fedTo + n <= Len(doc)}
        \cup (IF fedTo = 0 /\ Len(doc) > 0 THEN {Len(doc)} ELSE {})

\* the fields and the history as the run r of a _write call leaves them
Returns(r) ==
    /\ parser' = r.parser
    /\ events' = r.events
    /\ trace' = r.trace
    /\ doneCalls' = r.done
    /\ pc' = IF r.thrown THEN "thrown" ELSE "idle"

\* the writer hands the next n characters to _write, which runs to its end:
\* it returns after done(), or it throws and done is never called
Write(n) ==
    /\ pc = "idle"
    /\ ~ended
    /\ n \in ChunkLengths
    /\ Returns(_write([parser |-> parser, events |-> events, trace |-> trace,
                        thrown |-> FALSE, done |-> 0],
                       SubSeq(doc, fedTo + 1, fedTo + n), listeners))
    /\ fedTo' = fedTo + n
    /\ piecewise' = (piecewise \/ fedTo + n < Len(doc))
    /\ UNCHANGED <<doc, listeners, ended>>

\* End with the pending text run emitted
EndFlushesText ==
    /\ pc = "idle"
    /\ ~ended
    /\ ended' = TRUE
    /\ events' = events \o EmitText([out |-> <<>>, thrown |-> FALSE],
                                     Trim(Slice(parser.buffer, 1, parser.pos)), listeners).out
    /\ UNCHANGED <<doc, listeners, fedTo, pc, parser, trace, doneCalls, piecewise>>

\* end(): the class defines neither _final nor a 'finish' handler
End ==
    /\ pc = "idle"
    /\ ~ended
    /\ ended' = TRUE
    /\ UNCHANGED <<doc, listeners, fedTo, pc, parser, events, trace, doneCalls, piecewise>>

Next ==
    \/ \E n \in 1..Len(doc) : Write(n)
    \/ End

Spec == Init /\ [][Next]_vars

TypeOK ==
    /\ pc \in {"idle", "thrown"}
    /\ fedTo \in 0..Len(doc)
    /\ parser.state \in {TEXT, TAG_NAME, INSTRUCTION, IGNORE_COMMENT, CDATA}
    /\ parser.tagType \in {NONE, OPENING, CLOSING, SELF_CLOSING}

(***************************************************************************)
(* What the claims speak about: the iterations so far.  trace[k] is the    *)
(* iteration that consumed doc[k].                                         *)
(***************************************************************************)
Consumed == 1..Len(trace)

\* the events the iterations a..b of the history tr emitted, in order
RECURSIVE OutsOf(_, _, _)
OutsOf(tr, a, b) == IF a > b THEN <<>> ELSE tr[a].out \o OutsOf(tr, a + 1, b)

Outs(a, b) == OutsOf(trace, a, b)

\* the events of the sequence es that have one of the types
RECURSIVE OfTypes(_, _)
OfTypes(es, types) ==
    IF es = <<>> THEN <<>>
    ELSE IF Head(es).type \in types THEN <<Head(es)>> \o OfTypes(Tail(es), types)
    ELSE OfTypes(Tail(es), types)

\* the characters a..b of the document
Seg(a, b) == SubSeq(doc, a, b)

\* the string pat is in the document at a
DocHas(a, pat) == a >= 1 /\ OccursAt(doc, pat, a - 1)

OpenTag(name, attributes) == Event(EVENTS.OPEN_TAG, name, attributes, <<>>)
CloseTag(name, attributes) == Event(EVENTS.CLOSE_TAG, name, attributes, <<>>)
Text(text) == Event(EVENTS.TEXT, <<>>, NoAttributes, text)
Cdata(text) == Event(EVENTS.CDATA, <<>>, NoAttributes, text)
Instruction(name, attributes) == Event(EVENTS.INSTRUCTION, name, attributes, <<>>)

\* a name of a tag: name characters, '/' neither first nor last
IsName(n) ==
    /\ n # <<>>
    /\ \A j \in 1..Len(n) : n[j] \in NameClass
    /\ n[1] # "/"
    /\ n[Len(n)] # "/"

(***************************************************************************)
(* C1.  Chunk-boundary invariance: however the characters written so far   *)
(* were split into chunks, the fields of the parser, the events emitted    *)
(* and what each iteration did are those of one _write call on a new       *)
(* Parser with all these characters as a single chunk.                     *)
(***************************************************************************)
SameAsRun(r) ==
    /\ parser = r.parser
    /\ events = r.events
    /\ trace = r.trace
    /\ (pc = "thrown") = r.thrown

ChunkBoundaryInvariance == SameAsRun(_write(NewRun, Seg(1, fedTo), listeners))

\* a document of several constructs was written in pieces, to its end
ChunkedDocumentWritten ==
    /\ piecewise
    /\ pc = "idle"
    /\ fedTo = Len(doc)
    /\ Len(events) >= 3

(***************************************************************************)
(* C2.  Document order: an element <n>t</n> met in Text state, n a name    *)
(* and t text without '<' that is not only white space, emits after its    *)
(* first '<' exactly opentag(n, {}), text(trim(t)), closetag(n, {}); a      *)
(* closing tag </n> met in Text state emits after its '<' exactly           *)
(* closetag(n, {}).                                                         *)
(***************************************************************************)
\* the consumed places from a on that hold the character c
Places(a, c) == {k \in a..Len(trace) : doc[k] = c}

\* s..a is <n>, a+1..b-1 is t, and </n> is at b
IsElement(s, a, b) ==
    /\ doc[s] = "<" /\ doc[a] = ">" /\ s < a /\ a < b
    /\ trace[s].before.state = TEXT
    /\ IsName(Seg(s + 1, a - 1))
    /\ DocHas(b, <<"<", "/">> \o Seg(s + 1, a - 1) \o <<">">>)
    /\ \A j \in (a + 1)..(b - 1) : doc[j] # "<"
    /\ Trim(Seg(a + 1, b - 1)) # <<>>

\* the place of the '>' of a closing tag at b for an opening tag s..a
ElementEnd(s, a, b) == b + (a - s) + 1

\* s..e is </n>
IsClosingTag(s, e) ==
    /\ s + 2 < e
    /\ doc[s] = "<" /\ doc[s + 1] = "/" /\ doc[e] = ">"
    /\ trace[s].before.state = TEXT
    /\ IsName(Seg(s + 2, e - 1))

ElementEventsInOrder ==
    /\ \A s \in Places(1, "<") : \A a \in Places(s + 1, ">") : \A b \in Places(a + 1, "<") :
          (IsElement(s, a, b) /\ ElementEnd(s, a, b) <= Len(trace)) =>
             Outs(s + 1, ElementEnd(s, a, b)) =
                << OpenTag(Seg(s + 1, a - 1), NoAttributes),
                   Text(Trim(Seg(a + 1, b - 1))),
                   CloseTag(Seg(s + 1, a - 1), NoAttributes) >>
    /\ \A s \in Places(1, "<") : \A e \in Places(s + 1, ">") :
          IsClosingTag(s, e) => Outs(s + 1, e) = << CloseTag(Seg(s + 2, e - 1), NoAttributes) >>

\* an element with white space around its text has been consumed
ElementConsumed ==
    \E s \in Places(1, "<") : \E a \in Places(s + 1, ">") : \E b \in Places(a + 1, "<") :
        /\ IsElement(s, a, b)
        /\ ElementEnd(s, a, b) <= Len(trace)
        /\ Trim(Seg(a + 1, b - 1)) # Seg(a + 1, b - 1)

(***************************************************************************)
(* C3.  Self-closing resolution: every '>' consumed in TagName state after *)
(* a '/' emits opentag and right after it closetag, both with the parsed   *)
(* name and with the same attributes: the marker alone if the parsed       *)
(* attributes are empty, the parsed attributes otherwise.                  *)
(***************************************************************************)
AllEvents == EventNames
NotError == EventNames \ {EVENTS.ERROR}

\* the string of the tag that the '>' at k completes
TagString(k) == Tail(trace[k].before.buffer)

\* the '>' at k completes a tag
CompletesTag(k) == trace[k].c = ">" /\ trace[k].before.state = TAG_NAME

ExpectedSelfClosing(parsed) ==
    << OpenTag(parsed.name, IF parsed.attributes = NoAttributes
                            THEN (selfClosingKey :> true) ELSE parsed.attributes),
       CloseTag(parsed.name, IF parsed.attributes = NoAttributes
                             THEN (selfClosingKey :> true) ELSE parsed.attributes) >>

SelfClosingResolution ==
    \A k \in Consumed :
        (CompletesTag(k) /\ k > 1 /\ doc[k - 1] = "/") =>
            OfTypes(trace[k].out, NotError) = ExpectedSelfClosing(_parseTagString(TagString(k)))

(***************************************************************************)
(* C4.  CDATA content is literal: a section <![CDATA[ body ]]> met in Text *)
(* state, body without ']]>', emits exactly one cdata event, at its last   *)
(* '>', whose content is body; the state is then Text.                     *)
(***************************************************************************)
CDATAOpen == <<"<", "!", "[", "C", "D", "A", "T", "A", "[">>

\* s..e is <![CDATA[ body ]]>
IsCDATASection(s, e) ==
    /\ s + 11 <= e
    /\ DocHas(s, CDATAOpen)
    /\ DocHas(e - 2, <<"]", "]", ">">>)
    /\ ~Contains(Seg(s + 9, e - 3), <<"]", "]", ">">>)
    /\ trace[s].before.state = TEXT

CDATAContentLiteral ==
    \A s \in Places(1, "<") : \A e \in Places(s + 11, ">") :
        IsCDATASection(s, e) =>
            /\ OfTypes(Outs(s, e - 1), {EVENTS.CDATA}) = <<>>
            /\ OfTypes(trace[e].out, {EVENTS.CDATA}) = << Cdata(Seg(s + 9, e - 3)) >>
            /\ trace[e].after.state = TEXT

(***************************************************************************)
(* C5.  Comments are ignored: for a comment <!-- body --> met in Text      *)
(* state, body without '--', nothing is emitted after its '<' up to its    *)
(* last '>', the state is IgnoreComment from the first '-' until that '>'  *)
(* and Text after it, and the text event of the next '<' carries only the  *)
(* characters that follow the comment.                                     *)
(***************************************************************************)
\* s..e is <!-- body -->
IsComment(s, e) ==
    /\ s + 6 <= e
    /\ DocHas(s, <<"<", "!", "-", "-">>)
    /\ DocHas(e - 2, <<"-", "-", ">">>)
    /\ ~Contains(Seg(s + 4, e - 3), <<"-", "-">>)
    /\ trace[s].before.state = TEXT

\* what the '<' at k emits for the text run that starts after e
TextEventOf(e, k) ==
    IF Trim(Seg(e + 1, k - 1)) # <<>> THEN << Text(Trim(Seg(e + 1, k - 1))) >> ELSE <<>>

CommentsIgnored ==
    \A s \in Places(1, "<") : \A e \in Places(s + 6, ">") :
        IsComment(s, e) =>
            /\ OfTypes(trace[s].out, EventNames \ {EVENTS.TEXT}) = <<>>
            /\ Outs(s + 1, e) = <<>>
            /\ \A k \in (s + 2)..(e - 1) : trace[k].after.state = IGNORE_COMMENT
            /\ trace[e].after.state = TEXT
            /\ \A k \in Places(e + 1, "<") :
                  (\A j \in (e + 1)..(k - 1) : doc[j] # "<") => trace[k].out = TextEventOf(e, k)

(***************************************************************************)
(* C6.  Processing instructions: a construct <? raw ?> met in Text state,  *)
(* raw without '?>', emits exactly one instruction event, at its last '>', *)
(* with the name and the attributes that raw parses to; it emits no        *)
(* opentag, closetag or text, and the state is then Text.                  *)
(***************************************************************************)
\* s..e is <? raw ?>
IsInstruction(s, e) ==
    /\ s + 3 <= e
    /\ DocHas(s, <<"<", "?">>)
    /\ DocHas(e - 1, <<"?", ">">>)
    /\ ~Contains(Seg(s + 2, e - 2), <<"?", ">">>)
    /\ trace[s].before.state = TEXT

InstructionOf(parsed) == << Instruction(parsed.name, parsed.attributes) >>

InstructionParsed ==
    \A s \in Places(1, "<") : \A e \in Places(s + 3, ">") :
        IsInstruction(s, e) =>
            /\ OfTypes(Outs(s, e - 1), {EVENTS.INSTRUCTION}) = <<>>
            /\ OfTypes(trace[e].out, {EVENTS.INSTRUCTION}) =
                  InstructionOf(_parseTagString(Seg(s + 2, e - 2)))
            /\ OfTypes(Outs(s + 1, e), {EVENTS.OPEN_TAG, EVENTS.CLOSE_TAG, EVENTS.TEXT}) = <<>>
            /\ trace[e].after.state = TEXT

(***************************************************************************)
(* C7.  A name that does not parse is not fatal: the '>' that completes a  *)
(* tag or an instruction whose string yields no name emits one error event *)
(* first and then the events of the tag type (opentag, closetag, opentag   *)
(* and closetag, or instruction) with the absent name; the state is then   *)
(* Text, and the tag type None after a tag.                                *)
(***************************************************************************)
\* the types and the names of the events es
RECURSIVE TypesAndNames(_)
TypesAndNames(es) ==
    IF es = <<>> THEN <<>>
    ELSE << <<Head(es).type, Head(es).name>> >> \o TypesAndNames(Tail(es))

\* the tag type when the '>' at k completes a tag
TagTypeAt(k) == IF Prev(trace[k].before) = "/" THEN SELF_CLOSING ELSE trace[k].before.tagType

ExpectedOfTagType(t) ==
    CASE t = OPENING -> << <<EVENTS.OPEN_TAG, null>> >>
      [] t = CLOSING -> << <<EVENTS.CLOSE_TAG, null>> >>
      [] t = SELF_CLOSING -> << <<EVENTS.OPEN_TAG, null>>, <<EVENTS.CLOSE_TAG, null>> >>
      [] OTHER -> <<>>

\* the '>' at k completes an instruction
CompletesInstruction(k) ==
    /\ trace[k].c = ">"
    /\ trace[k].before.state = INSTRUCTION
    /\ Prev(trace[k].before) = "?"

\* the string of the instruction that the '>' at k completes
InstructionString(k) == Slice(trace[k].before.buffer, 1, Len(trace[k].before.buffer) - 1)

NameFailureNotFatal ==
    \A k \in Consumed :
        /\ (CompletesTag(k) /\ _parseTagString(TagString(k)).name = null) =>
              /\ TypesAndNames(trace[k].out) =
                    << <<EVENTS.ERROR, <<>> >> >> \o ExpectedOfTagType(TagTypeAt(k))
              /\ trace[k].after.state = TEXT
              /\ trace[k].after.tagType = NONE
        /\ (CompletesInstruction(k) /\ _parseTagString(InstructionString(k)).name = null) =>
              /\ TypesAndNames(trace[k].out) =
                    << <<EVENTS.ERROR, <<>> >>, <<EVENTS.INSTRUCTION, null>> >>
              /\ trace[k].after.state = TEXT

(***************************************************************************)
(* C8.  _write runs to completion: whatever the chunk, the state and the   *)
(* listeners, it consumes every character of the chunk, does not throw,    *)
(* and calls done once.                                                    *)
(***************************************************************************)
WriteRunsToCompletion ==
    /\ pc = "idle"
    /\ Len(trace) = fedTo
    /\ doneCalls = (IF fedTo > 0 THEN 1 ELSE 0)

(***************************************************************************)
(* C9.  Every text event carries a payload that is not empty and neither   *)
(* begins nor ends with white space; a run of white space only, consumed   *)
(* in Text state between a '>' and the next '<', emits no text event.      *)
(***************************************************************************)
IsTrimmed(text) ==
    /\ text # <<>>
    /\ text[1] \notin WhiteSpace
    /\ text[Len(text)] \notin WhiteSpace

\* a+1..k-1 is white space only, after a '>' at a that left Text state, before a '<' at k
IsWhiteSpaceRun(a, k) ==
    /\ a + 1 < k
    /\ doc[a] = ">" /\ doc[k] = "<"
    /\ trace[a].after.state = TEXT
    /\ \A j \in (a + 1)..(k - 1) : doc[j] \in WhiteSpace

TextEventsTrimmed ==
    /\ \A j \in 1..Len(events) : events[j].type = EVENTS.TEXT => IsTrimmed(events[j].text)
    /\ \A a \in Places(1, ">") : \A k \in Places(a + 1, "<") :
          IsWhiteSpaceRun(a, k) => OfTypes(trace[k].out, {EVENTS.TEXT}) = <<>>

\* a run of white space has been passed, and a text event emitted after it
WhiteSpaceRunPassed ==
    /\ \E a \in Places(1, ">") : \E k \in Places(a + 1, "<") : IsWhiteSpaceRun(a, k)
    /\ OfTypes(events, {EVENTS.TEXT}) # <<>>

(***************************************************************************)
(* C10.  Text is emitted only at a tag start: every step adds to the       *)
(* events what its iterations emitted, an iteration emits a text event     *)
(* only if it consumes a '<' in Text state, and the step that ends the     *)
(* stream emits nothing and leaves the parser as it is.                    *)
(***************************************************************************)
TextOnlyAtTagStart ==
    [][ /\ events' = events \o OutsOf(trace', Len(trace) + 1, Len(trace'))
        /\ \A k \in (Len(trace) + 1)..Len(trace') :
              OfTypes(trace'[k].out, {EVENTS.TEXT}) # <<>> =>
                  (trace'[k].c = "<" /\ trace'[k].before.state = TEXT)
        /\ (ended' # ended) => (events' = events /\ parser' = parser /\ trace' = trace)
      ]_vars

\* the stream has ended after the whole document, with a text run after the
\* last tag that no event carries
TrailingTextNotEmitted ==
    /\ ended
    /\ fedTo = Len(doc)
    /\ parser.state = TEXT
    /\ Trim(Slice(parser.buffer, 1, parser.pos)) # <<>>
    /\ events # <<>>
    /\ OfTypes(events, {EVENTS.TEXT}) = <<>>

(***************************************************************************)
(* C11.  Duplicate attribute keys resolve to the last occurrence: the '>'  *)
(* that completes a tag or an instruction whose string is a name followed  *)
(* by key="value" pairs, some with the same key, parses the string to a    *)
(* mapping that has every key once, with the value of its last pair, and   *)
(* the opentag, closetag and instruction events it emits carry that        *)
(* mapping.  DuplicateKeysLastWins states it for the strings whose name    *)
(* parses, DuplicateKeysLastWinsAlways for every such string.              *)
(***************************************************************************)
\* a pair is ' k="v"' with one character of key and one of value
PairLength == Len(AttrX1)

PairAt(attrs, i) == SubSeq(attrs, PairLength * (i - 1) + 1, PairLength * i)
KeyOfPair(p) == <<p[2]>>
ValueOfPair(p) == <<p[5]>>
PairCount(attrs) == Len(attrs) \div PairLength

\* the place of the last pair of attrs with the key
LastPairOf(attrs, key) ==
    CHOOSE i \in 1..PairCount(attrs) :
        /\ KeyOfPair(PairAt(attrs, i)) = key
        /\ \A j \in (i + 1)..PairCount(attrs) : KeyOfPair(PairAt(attrs, j)) # key

\* every key of the pairs once, with the value of its last pair
LastWins(attrs) ==
    [key \in {KeyOfPair(PairAt(attrs, i)) : i \in 1..PairCount(attrs)} |->
        ValueOfPair(PairAt(attrs, LastPairOf(attrs, key)))]

HasDuplicateKey(attrs) ==
    \E i, j \in 1..PairCount(attrs) :
        i < j /\ KeyOfPair(PairAt(attrs, i)) = KeyOfPair(PairAt(attrs, j))

\* the strings with a duplicate key: a name or none, the pairs, a '/' or none
DuplicateKeyStrings(names) ==
    {[str |-> name \o attrs \o close, attrs |-> attrs] :
        name \in names, attrs \in {a \in AttrStrings : HasDuplicateKey(a)},
        close \in {<<>>, <<"/">>}}

\* the string that the '>' at k completes, if it completes a tag or an instruction
CompletedString(k) ==
    IF CompletesTag(k) THEN TagString(k)
    ELSE IF CompletesInstruction(k) THEN InstructionString(k)
    ELSE null

TagEventTypes == {EVENTS.OPEN_TAG, EVENTS.CLOSE_TAG, EVENTS.INSTRUCTION}

\* the string parses to the mapping, and the events of the iteration carry it
MappingForwarded(k, str, mapping) ==
    /\ _parseTagString(str).attributes = mapping
    /\ \A j \in 1..Len(trace[k].out) :
          trace[k].out[j].type \in TagEventTypes => trace[k].out[j].attributes = mapping

LastWinsFor(names) ==
    \A k \in Places(1, ">") : \A d \in DuplicateKeyStrings(names) :
        CompletedString(k) = d.str => MappingForwarded(k, d.str, LastWins(d.attrs))

DuplicateKeysLastWinsAlways == LastWinsFor({<<>>, <<"a">>, <<"x">>})

DuplicateKeysLastWins == LastWinsFor({<<"a">>, <<"x">>})

\* a tag with a name and two pairs of the same key, the first value last, has
\* been completed and its event emitted
DuplicateKeyTagCompleted ==
    \E k \in Places(1, ">") :
        /\ CompletedString(k) = <<"a">> \o AttrX2 \o AttrX1
        /\ Len(trace[k].out) = 1
        /\ trace[k].out[1].attributes = (<<"x">> :> <<"1">>)

(***************************************************************************)
(* C12.  Text runs are captured completely: when a '<' is consumed in Text *)
(* state, the text recorded is the characters consumed in Text state since *)
(* the state last became Text, or since the start of the stream, and the   *)
(* iteration emits one text event with the trimmed run if the trimmed run  *)
(* is not empty, and no text event otherwise.                              *)
(***************************************************************************)
\* the place before the text run that ends before k: the last iteration
\* before k that did not begin in Text state, or 0 at the start of the stream
RunStart(k) ==
    IF \E j \in 1..(k - 1) : trace[j].before.state # TEXT
    THEN CHOOSE j \in 1..(k - 1) :
            /\ trace[j].before.state # TEXT
            /\ \A i \in (j + 1)..(k - 1) : trace[i].before.state = TEXT
    ELSE 0

\* the text the iteration k records when it closes the recording
RecordedAt(k) ==
    Recorded([buffer |-> Append(trace[k].before.buffer, trace[k].c),
              pos |-> trace[k].before.pos + 1])

TextEventFor(run) == IF Trim(run) # <<>> THEN << Text(Trim(run)) >> ELSE <<>>

TextRunsComplete ==
    \A k \in Places(1, "<") :
        trace[k].before.state = TEXT =>
            /\ RecordedAt(k) = Seg(RunStart(k) + 1, k - 1)
            /\ trace[k].out = TextEventFor(Seg(RunStart(k) + 1, k - 1))

(***************************************************************************)
(* C13.  Unterminated constructs are silent: an iteration that begins in   *)
(* TagName, Instruction, Cdata or IgnoreComment state and consumes a       *)
(* character that is not the terminator of that state ('>' in TagName, '>' *)
(* after '?' in Instruction, '>' after ']]' in Cdata, '>' after '--' in    *)
(* IgnoreComment) emits nothing, throws nothing and ends in a state that   *)
(* is not Text; and when the stream has ended, the events are those the    *)
(* iterations emitted, so a construct the input left open has none.        *)
(***************************************************************************)
\* the characters of the document before k end with pat
DocEndsBefore(k, pat) == DocHas(k - Len(pat), pat)

\* the character the iteration k consumes ends the construct of its state
IsTerminator(k) ==
    /\ trace[k].c = ">"
    /\ CASE trace[k].before.state = TAG_NAME -> TRUE
         [] trace[k].before.state = INSTRUCTION -> DocEndsBefore(k, <<"?">>)
         [] trace[k].before.state = CDATA -> DocEndsBefore(k, <<"]", "]">>)
         [] trace[k].before.state = IGNORE_COMMENT -> DocEndsBefore(k, <<"-", "-">>)
         [] OTHER -> FALSE

UnterminatedSilent ==
    /\ \A k \in Consumed :
          (trace[k].before.state # TEXT /\ ~IsTerminator(k)) =>
              /\ trace[k].out = <<>>
              /\ ~trace[k].thrown
              /\ trace[k].after.state # TEXT
    /\ ended => events = Outs(1, Len(trace))

\* the input ended inside a CDATA section, after a '>' of its body, with
\* nothing emitted since the section began
EndedInsideCDATA ==
    /\ ended
    /\ parser.state = CDATA
    /\ events # <<>>
    /\ \E s \in Places(1, "<") : \E k \in Places(s + 9, ">") :
          /\ DocHas(s, CDATAOpen)
          /\ trace[s].before.state = TEXT
          /\ Outs(s + 1, Len(trace)) = <<>>

(***************************************************************************)
(* C14.  Cursor and buffer: before the first character and after every     *)
(* iteration, in every state and after every handler, the rewind of        *)
(* _onEndInstruction included, pos is the length of the buffer.            *)
(***************************************************************************)
CursorIsBufferLength ==
    /\ parser.pos = Len(parser.buffer)
    /\ \A k \in Consumed :
          /\ trace[k].before.pos = Len(trace[k].before.buffer)
          /\ trace[k].after.pos = Len(trace[k].after.buffer)

\* an instruction has been ended, its '?' dropped by the rewind, and
\* characters consumed after it
InstructionRewound ==
    \E k \in Places(1, ">") :
        /\ CompletesInstruction(k)
        /\ Len(trace[k].before.buffer) > 2
        /\ trace[k].after.state = TEXT
        /\ k < Len(trace)
        /\ parser.pos > 1

(***************************************************************************)
(* C15.  Bounded recording buffer: right after an iteration that closes a  *)
(* recording (a '<' in Text state; in TagName state the '/' of '</', the   *)
(* '?' of '<?', the '[' of '<![' and every '>'; the '>' of '?>' in         *)
(* Instruction, of ']]>' in Cdata, of '-->' in IgnoreComment state) the    *)
(* buffer is the one character just consumed and pos is 1; so the buffer   *)
(* is never longer than 1 plus the number of characters consumed since     *)
(* the last such iteration.                                                *)
(***************************************************************************)
ClosesRecording(k) ==
    CASE trace[k].before.state = TEXT -> trace[k].c = "<"
      [] trace[k].before.state = TAG_NAME ->
            \/ trace[k].c = ">"
            \/ trace[k].c = "/" /\ DocEndsBefore(k, <<"<">>)
            \/ trace[k].c = "?" /\ DocEndsBefore(k, <<"<">>)
            \/ trace[k].c = "[" /\ DocEndsBefore(k, <<"<", "!">>)
      [] OTHER -> IsTerminator(k)

\* the last iteration up to k that closed a recording, or 0
LastClosing(k) ==
    IF \E j \in 1..k : ClosesRecording(j)
    THEN CHOOSE j \in 1..k : ClosesRecording(j) /\ \A i \in (j + 1)..k : ~ClosesRecording(i)
    ELSE 0

BufferBounded ==
    \A k \in Consumed :
        /\ ClosesRecording(k) =>
              (trace[k].after.buffer = <<trace[k].c>> /\ trace[k].after.pos = 1)
        /\ Len(trace[k].after.buffer) <= 1 + (k - LastClosing(k))

\* a comment has been ended and characters consumed after it
CommentClosed ==
    \E k \in Places(1, ">") :
        /\ trace[k].before.state = IGNORE_COMMENT
        /\ IsTerminator(k)
        /\ Len(trace[k].before.buffer) > 5
        /\ k < Len(trace)

(***************************************************************************)
(* C16.  The tag type outside tags.  MarkerNoneOutsideTags: at every       *)
(* character boundary at which the state is not TagName the tag type is    *)
(* None.  MarkerOutsideTags: at every such boundary the tag type is None   *)
(* if no tag has been started or the last iteration in TagName state       *)
(* completed a tag with its '>', and otherwise (in Instruction, Cdata and  *)
(* IgnoreComment state, and in Text state after them) it is Opening or     *)
(* Closing, as it was when TagName state was left.                         *)
(***************************************************************************)
MarkerNoneOutsideTags ==
    /\ parser.state # TAG_NAME => parser.tagType = NONE
    /\ \A k \in Consumed : trace[k].after.state # TAG_NAME => trace[k].after.tagType = NONE

\* the last iteration up to k that began in TagName state, or 0
LastInTag(k) ==
    IF \E j \in 1..k : trace[j].before.state = TAG_NAME
    THEN CHOOSE j \in 1..k :
            /\ trace[j].before.state = TAG_NAME
            /\ \A i \in (j + 1)..k : trace[i].before.state # TAG_NAME
    ELSE 0

\* before any tag, or after a tag that its '>' completed
OutsideCompletedTag(k) == LastInTag(k) = 0 \/ trace[LastInTag(k)].c = ">"

\* the '<' that began the tag of the iteration j: the last iteration up to j
\* that began in Text state
TagStart(j) ==
    CHOOSE s \in 1..j :
        /\ trace[s].before.state = TEXT
        /\ \A i \in (s + 1)..j : trace[i].before.state # TEXT

\* a '</' has been consumed in the tag of the iteration j, up to j
SeenCloseTagStart(j) ==
    \E i \in (TagStart(j) + 1)..j : doc[i] = "/" /\ doc[i - 1] = "<"

MarkerOutsideTags ==
    /\ trace = <<>> => parser.tagType = NONE
    /\ \A k \in Consumed :
          trace[k].after.state # TAG_NAME =>
              /\ (trace[k].after.tagType = NONE) = OutsideCompletedTag(k)
              /\ trace[k].after.tagType \in {NONE, OPENING, CLOSING}
              /\ ~OutsideCompletedTag(k) =>
                    (trace[k].after.tagType = CLOSING) = SeenCloseTagStart(LastInTag(k))

\* Text state after a tag, with the tag type None, and then after an
\* instruction, a comment or a CDATA section, with the tag type still Opening
MarkerLeftBehind ==
    /\ parser.state = TEXT
    /\ parser.tagType = OPENING
    /\ \E k \in Consumed :
          trace[k].after.state = TEXT /\ trace[k].after.tagType = NONE

(***************************************************************************)
(* C17.  Every completed tag emits: at every character boundary at which   *)
(* the state is TagName the tag type is Opening or Closing, and every '>'  *)
(* consumed in TagName state emits opentag and then closetag if the        *)
(* character before it is '/', and otherwise exactly one opentag if the    *)
(* tag type is Opening and exactly one closetag if it is Closing.          *)
(***************************************************************************)
\* the types of the events es
RECURSIVE TypesOf(_)
TypesOf(es) == IF es = <<>> THEN <<>> ELSE <<Head(es).type>> \o TypesOf(Tail(es))

\* the opentag and closetag events the claim expects of the '>' at k
ExpectedTagEvents(k) ==
    IF Prev(trace[k].before) = "/" THEN <<EVENTS.OPEN_TAG, EVENTS.CLOSE_TAG>>
    ELSE IF trace[k].before.tagType = OPENING THEN <<EVENTS.OPEN_TAG>>
    ELSE IF trace[k].before.tagType = CLOSING THEN <<EVENTS.CLOSE_TAG>>
    ELSE <<>>

EveryCompletedTagEmits ==
    /\ parser.state = TAG_NAME => parser.tagType \in {OPENING, CLOSING}
    /\ \A k \in Consumed :
          /\ trace[k].after.state = TAG_NAME => trace[k].after.tagType \in {OPENING, CLOSING}
          /\ CompletesTag(k) =>
                /\ TypesOf(OfTypes(trace[k].out, {EVENTS.OPEN_TAG, EVENTS.CLOSE_TAG})) =
                      ExpectedTagEvents(k)
                /\ ExpectedTagEvents(k) # <<>>

====
